---- MODULE Spec2Model ----
(***************************************************************************)
(* ConditionalSlope: the scan pipeline of scanner/scanner.py               *)
(* (Scanner.run_scanner, Scanner.fetch_daily_data) and the cleaning        *)
(* pipeline of scanner/clean_data.py (CleanData.clean_stock_data).         *)
(*                                                                         *)
(* Time is counted in ticks of 0.5 s, the length of the pacing pause; the   *)
(* clock advances by the pauses only (a request is taken to return at      *)
(* once, the least the pacing can rely on).                                *)
(* A Panel is a sequence of rows [symbol, idx, close]; idx is the raw      *)
(* index value [t, fmt] (fmt "ts": a Timestamp, "str": a date string of    *)
(* the same instant, "bad": not a date), close = NaN is a missing value.   *)
(* The shape of a panel is what the code branches on:                      *)
(*   "multi"  MultiIndex (symbol, timestamp)                               *)
(*   "flat"   unnamed datetime index, 'symbol' column                      *)
(*   "named"  index named 'timestamp', 'symbol' column                     *)
(*   "single" datetime index, no symbol (rows carry NoSymbol)              *)
(***************************************************************************)
EXTENDS Integers, Sequences, FiniteSets, TLC

\* ---------------------------------------------------------------- bounds
MaxAssets == 3
MaxBudget == 5
MaxCycles == 2
MaxRanked == 12
MaxRows == 3
MaxBarTs == 1
MaxBars == 3
MaxOtherBars == 2
MaxWindow == 3
MaxRankSymbols == 2

\* ------------------------------------------------------ program constants
MaxApiBatch == 200
PauseTicks == 1
MinuteTicks == 120
TopN == 10
RvolWindow == 20
RsWindow == 50
LookbackDays == 20
WindowDays == 15

NaN == 0
NoSymbol == "-"
Benchmark == "SPY"

Min(a, b) == IF a <= b THEN a ELSE b

Range(s) == {s[k] : k \in DOMAIN s}

\* Lexicographic order of the symbol names the model uses (sorting, groupby).
SymbolOrder ==
  <<"-", "A", "B", "C", "D", "E", "F", "G", "H", "I", "J", "K", "L", "M", "N",
    "SPY", "X", "Y", "Z">>

SymRank(s) == CHOOSE k \in DOMAIN SymbolOrder : SymbolOrder[k] = s

\* The assets the brokerage lists, in the order it lists them.
AssetPool ==
  << [symbol |-> "A", tradable |-> TRUE,  exchange |-> "NASDAQ", shortable |-> TRUE],
     [symbol |-> "X", tradable |-> FALSE, exchange |-> "NYSE",   shortable |-> TRUE],
     [symbol |-> "B", tradable |-> TRUE,  exchange |-> "NYSE",   shortable |-> TRUE],
     [symbol |-> "Y", tradable |-> TRUE,  exchange |-> "ARCA",   shortable |-> TRUE],
     [symbol |-> "C", tradable |-> TRUE,  exchange |-> "NYSE",   shortable |-> TRUE],
     [symbol |-> "Z", tradable |-> TRUE,  exchange |-> "NASDAQ", shortable |-> FALSE],
     [symbol |-> "D", tradable |-> TRUE,  exchange |-> "NASDAQ", shortable |-> TRUE],
     [symbol |-> "E", tradable |-> TRUE,  exchange |-> "NYSE",   shortable |-> TRUE] >>

Shapes == {"multi", "flat", "named", "single"}

\* ------------------------------------------------------------ CleanData

\* pd.to_datetime of one index value: the instant it denotes.
ToDatetime(idx) == [t |-> idx.t, fmt |-> "ts"]

\* The sort key of a row under sort_index: (symbol, timestamp) for a
\* MultiIndex, the timestamp otherwise.
SortKey(shape, row) ==
  IF shape = "multi" THEN SymRank(row.symbol) * 1000 + row.idx.t ELSE row.idx.t

IsMonotonic(shape, rows) ==
  \A k \in 1..(Len(rows) - 1) : SortKey(shape, rows[k]) <= SortKey(shape, rows[k + 1])

\* DataFrame.sort_index(): a panel already monotonic is returned as it is; a
\* MultiIndex is sorted by a stable lexsort; any other index is sorted with the
\* default kind='quicksort', which leaves the order of equal keys unspecified
\* (NumPy's introsort keeps it only for arrays of at most 16 elements; the
\* short panels of the model stand for panels of any length).
sort_index(shape, rows) ==
  IF IsMonotonic(shape, rows) THEN {rows}
  ELSE LET n == Len(rows)
           ok(p) == \A a, b \in 1..n : a < b =>
                       /\ SortKey(shape, rows[p[a]]) <= SortKey(shape, rows[p[b]])
                       /\ (shape = "multi" /\ SortKey(shape, rows[p[a]]) = SortKey(shape, rows[p[b]]))
                             => p[a] < p[b]
       IN  {[k \in 1..n |-> rows[p[k]]] : p \in {q \in Permutations(1..n) : ok(q)}}

\* standardize_index: [err, rows] outcomes. pd.to_datetime raises on a
\* MultiIndex (its values are tuples) and on a value that is no date.
standardize_index(shape, rows) ==
  IF rows # <<>> /\ (shape = "multi" \/ \E k \in DOMAIN rows : rows[k].idx.fmt = "bad")
  THEN {[err |-> TRUE, rows |-> <<>>]}
  ELSE LET conv == [k \in DOMAIN rows |-> [rows[k] EXCEPT !.idx = ToDatetime(@)]]
       IN  {[err |-> FALSE, rows |-> r] : r \in sort_index(shape, conv)}

\* The key deduplicate compares: the MultiIndex tuple, (index, symbol), or the
\* index alone.
DedupKey(shape, row) ==
  IF shape = "single" THEN <<row.idx.t>> ELSE <<row.idx.t, row.symbol>>

\* deduplicate: keep='first'. With an index named 'timestamp', reset_index()
\* yields no 'index' column and the selection raises KeyError.
deduplicate(shape, rows) ==
  IF rows # <<>> /\ shape = "named"
  THEN [err |-> TRUE, rows |-> <<>>]
  ELSE LET keep(k) == \A j \in 1..(k - 1) : DedupKey(shape, rows[j]) # DedupKey(shape, rows[k])
           idxs == {k \in DOMAIN rows : keep(k)}
           nth(m) == CHOOSE k \in idxs : Cardinality({j \in idxs : j <= k}) = m
       IN  [err |-> FALSE, rows |-> [m \in 1..Cardinality(idxs) |-> rows[nth(m)]]]

\* DataFrame.ffill(): every missing value takes the last value above it in the
\* frame, whatever the symbol of that row.
Ffill(rows) ==
  LET filled[k \in 0..Len(rows)] ==
        IF k = 0 THEN NaN
        ELSE IF rows[k].close # NaN THEN rows[k].close ELSE filled[k - 1]
  IN  [k \in DOMAIN rows |-> [rows[k] EXCEPT !.close = filled[k]]]

\* DataFrame.bfill(): the mirror image of ffill.
Bfill(rows) ==
  LET n == Len(rows)
      filled[k \in 1..(n + 1)] ==
        IF k = n + 1 THEN NaN
        ELSE IF rows[k].close # NaN THEN rows[k].close ELSE filled[k + 1]
  IN  [k \in DOMAIN rows |-> [rows[k] EXCEPT !.close = filled[k]]]

handle_missing_data(rows, allow_bfill) ==
  IF allow_bfill THEN Bfill(Ffill(rows)) ELSE Ffill(rows)

\* 'last'/'first' aggregation of close over the rows of group g that fall in
\* the bucket starting at b: the last value that is not missing, else NaN.
LastValid(g, b, w) ==
  LET in == {k \in DOMAIN g : g[k].idx.t - (g[k].idx.t % w) = b /\ g[k].close # NaN}
  IN  IF in = {} THEN NaN ELSE g[CHOOSE k \in in : \A j \in in : j <= k].close

\* _resample_logic: group.resample(timeframe).agg({...}).ffill(). One row per
\* bucket of width w from the first to the last bucket of the group; the agg
\* dict names only the OHLCV columns, so the 'symbol' column is not in the result.
resample_logic(g, w) ==
  LET ts == {g[k].idx.t - (g[k].idx.t % w) : k \in DOMAIN g}
      lo == CHOOSE b \in ts : \A c \in ts : b <= c
      hi == CHOOSE b \in ts : \A c \in ts : c <= b
      nb == (hi - lo) \div w + 1
  IN  Ffill([m \in 1..nb |->
        [symbol |-> NoSymbol,
         idx |-> [t |-> lo + (m - 1) * w, fmt |-> "ts"],
         close |-> LastValid(g, lo + (m - 1) * w, w)]])

RECURSIVE ApplyByGroup(_, _, _)
\* groupby(...).apply(_resample_logic) with group_keys=False: the results of
\* the groups, concatenated in the sorted order of the group keys.
ApplyByGroup(rows, syms, w) ==
  IF syms = {} THEN <<>>
  ELSE LET s == CHOOSE x \in syms : \A y \in syms : SymRank(x) <= SymRank(y)
       IN  resample_logic(SelectSeq(rows, LAMBDA r : r.symbol = s), w)
             \o ApplyByGroup(rows, syms \ {s}, w)

\* resample_data: per symbol for a MultiIndex or a 'symbol' column, else the
\* whole frame. Resampler needs a datetime index: a MultiIndex group raises.
resample_data(shape, rows, w) ==
  IF rows = <<>> \/ shape = "multi" THEN [err |-> TRUE, rows |-> <<>>]
  ELSE IF shape \in {"flat", "named"}
       THEN [err |-> FALSE, rows |-> ApplyByGroup(rows, {rows[k].symbol : k \in DOMAIN rows}, w)]
       ELSE [err |-> FALSE, rows |-> resample_logic(rows, w)]

\* The pipeline without the try/except of lines 55-64 doing its work: a
\* stage that fails hands the frame on as it was.
clean_stock_data_unguarded(rows, shape, w, allow_bfill, resample) ==
  { IF st.err THEN rows
    ELSE LET d == deduplicate(shape, st.rows)
         IN  IF d.err THEN st.rows
             ELSE LET f == handle_missing_data(d.rows, allow_bfill)
                  IN  IF ~resample THEN f
                      ELSE LET r == resample_data(shape, f, w)
                           IN  IF r.err THEN f ELSE r.rows
    : st \in standardize_index(shape, rows) }

\* clean_stock_data: the panels the call can return (one per outcome of the
\* sort); any exception of a stage is caught and an empty panel returned.
clean_stock_data(rows, shape, w, allow_bfill, resample) ==
  { IF st.err THEN <<>>
    ELSE LET d == deduplicate(shape, st.rows)
         IN  IF d.err THEN <<>>
             ELSE LET f == handle_missing_data(d.rows, allow_bfill)
                  IN  IF ~resample THEN f
                      ELSE LET r == resample_data(shape, f, w)
                           IN  IF r.err THEN <<>> ELSE r.rows
    : st \in standardize_index(shape, rows) }

\* ------------------------------------------------------------- the pod

VARIABLES
  podHasBudget,            \* whether the pod has an allowed_rest_calls_per_minute attribute
  podAllowed,              \* its value when it has one
  rest_calls_this_minute,  \* AlpacaPod.rest_calls_this_minute
  shape,                   \* the shape of the frames StockHistoryBatch returns
  now,                     \* the wall clock, in ticks
  reqTimes,                \* the tick at which each bar request was issued, all cycles
  cycle,                   \* the number of the scan cycle
  pc,                      \* the position of run_scanner
  symbols,                 \* all_symbols of run_scanner
  batch_size, i, all_data, \* the locals of fetch_daily_data
  issued,                  \* the bar requests of the current fetch_daily_data call
  day_data, ranked, top_symbols, min_data,  \* the locals of run_scanner
  minuteReqs,              \* the 1Min requests of the cycle
  ret,                     \* what run_scanner returned
  raised,                  \* the exception that left run_scanner, or "none"
  call,                    \* the arguments of the call of the function under test
  result                   \* what that call returned

vars == <<podHasBudget, podAllowed, rest_calls_this_minute, shape, now, reqTimes,
          cycle, pc, symbols, batch_size, i, all_data, issued, day_data, ranked,
          top_symbols, min_data, minuteReqs, ret, raised, call, result>>

podVars == <<podHasBudget, podAllowed, shape>>
fetchVars == <<batch_size, i, all_data, issued>>
tailVars == <<ranked, top_symbols, min_data, minuteReqs>>
cleanVars == <<call, result>>

NoCall == [rows |-> <<>>, shape |-> "single", w |-> 1, allow_bfill |-> FALSE, resample |-> FALSE]

NoResult == [done |-> FALSE, rows |-> <<>>]

NoReturn == [returned |-> FALSE, ranked |-> <<>>, confirmed |-> <<>>]

Returned(r, c) == [returned |-> TRUE, ranked |-> r, confirmed |-> c]

\* ------------------------------------------------- the brokerage API

\* TradingClient.get_all_assets: raises, or lists the first k assets.
get_all_assets ==
  {[raised |-> TRUE, assets |-> <<>>]}
    \cup {[raised |-> FALSE, assets |-> SubSeq(AssetPool, 1, k)] : k \in 0..Min(MaxAssets, Len(AssetPool))}

\* One bar per symbol of syms, all at time t.
BarsOf(syms, t) ==
  [k \in DOMAIN syms |-> [symbol |-> syms[k], idx |-> [t |-> t, fmt |-> "ts"], close |-> 1]]

\* StockHistoryBatch.get_historical_bars(symbols=batch, ...): raises, or
\* returns bars of some of the requested symbols (of none: an empty frame).
get_historical_bars(batch) ==
  {[raised |-> TRUE, df |-> <<>>]}
    \cup {[raised |-> FALSE, df |-> BarsOf(SelectSeq(batch, LAMBDA s : s \in S), t)] :
            S \in SUBSET Range(batch), t \in 1..MaxBarTs}

\* ------------------------------------------------------------ Scanner

\* get_stock_universe: the symbols of the tradable, shortable NASDAQ/NYSE
\* assets; an exception (also the KeyError of an empty asset list) gives an
\* empty frame.
get_stock_universe(resp) ==
  IF resp.raised \/ resp.assets = <<>> THEN <<>>
  ELSE LET sel == SelectSeq(resp.assets,
                    LAMBDA a : a.tradable /\ a.exchange \in {"NASDAQ", "NYSE"} /\ a.shortable)
       IN  [k \in DOMAIN sel |-> sel[k].symbol]

\* batch_size = min(200, allowed_rest_calls_per_minute // 2)
BatchSize(allowed) == Min(MaxApiBatch, allowed \div 2)

\* A slicing that takes one symbol too many: symbols[i:i+batch_size+1].
BatchOverlap(syms, k, b) == SubSeq(syms, k + 1, Min(k + b + 1, Len(syms)))

\* batch = symbols[i:i+batch_size], i counted from 0
Batch(syms, k, b) == SubSeq(syms, k + 1, Min(k + b, Len(syms)))

RECURSIVE Concat(_)
\* pd.concat(all_data)
Concat(frames) == IF frames = <<>> THEN <<>> ELSE Head(frames) \o Concat(Tail(frames))

\* The symbols of the whole RankedList, without head(10).
TopSymbolsAll(r) ==
  LET first(k) == \A j \in 1..(k - 1) : r[j].symbol # r[k].symbol
      idxs == {k \in DOMAIN r : first(k)}
      nth(m) == CHOOSE k \in idxs : Cardinality({j \in idxs : j <= k}) = m
  IN  [m \in 1..Cardinality(idxs) |-> r[nth(m)].symbol]

\* top_symbols = ranked.head(10).index.get_level_values('symbol').unique().tolist()
TopSymbols(r) ==
  LET head == SubSeq(r, 1, Min(TopN, Len(r)))
      first(k) == \A j \in 1..(k - 1) : head[j].symbol # head[k].symbol
      idxs == {k \in DOMAIN head : first(k)}
      nth(m) == CHOOSE k \in idxs : Cardinality({j \in idxs : j <= k}) = m
  IN  [m \in 1..Cardinality(idxs) |-> head[nth(m)].symbol]

Init ==
  /\ podHasBudget \in BOOLEAN
  /\ podAllowed \in (IF podHasBudget THEN 0..MaxBudget ELSE {0})
  /\ rest_calls_this_minute = 0
  /\ shape \in {"multi", "flat"}
  /\ now = 0
  /\ reqTimes = <<>>
  /\ cycle = 1
  /\ pc = "Idle"
  /\ symbols = <<>>
  /\ batch_size = 0 /\ i = 0 /\ all_data = <<>> /\ issued = <<>>
  /\ day_data = <<>> /\ ranked = <<>> /\ top_symbols = <<>> /\ min_data = <<>>
  /\ minuteReqs = <<>>
  /\ ret = NoReturn
  /\ raised = "none"
  /\ call = NoCall /\ result = NoResult

\* run_scanner is called.
StartScan ==
  /\ pc = "Idle"
  /\ pc' = "FetchUniverse"
  /\ UNCHANGED <<podVars, rest_calls_this_minute, now, reqTimes, cycle, symbols,
                 fetchVars, day_data, tailVars, ret, raised, cleanVars>>

\* run_scanner, lines 227-236: the universe, or the return on an empty one.
FetchUniverse ==
  /\ pc = "FetchUniverse"
  /\ \E resp \in get_all_assets :
       LET universe == get_stock_universe(resp)
       IN  IF universe = <<>>
           THEN /\ pc' = "Aborted"
                /\ ret' = Returned(<<>>, <<>>)
                /\ symbols' = symbols
           ELSE /\ pc' = "FetchDaily"
                /\ symbols' = universe \o <<Benchmark>>
                /\ ret' = ret
  /\ UNCHANGED <<podVars, rest_calls_this_minute, now, reqTimes, cycle,
                 fetchVars, day_data, tailVars, raised, cleanVars>>

\* fetch_daily_data, lines 189-196: the batch size is read from the pod. A pod
\* without the attribute raises AttributeError, a batch size of 0 makes
\* range() raise ValueError; neither is inside a try.
FetchDailyBegin ==
  /\ pc = "FetchDaily"
  /\ IF ~podHasBudget
     THEN /\ pc' = "Raised" /\ raised' = "AttributeError"
          /\ UNCHANGED fetchVars
     ELSE IF BatchSize(podAllowed) = 0
     THEN /\ pc' = "Raised" /\ raised' = "ValueError"
          /\ UNCHANGED fetchVars
     ELSE /\ pc' = "FetchDailyLoop" /\ raised' = raised
          /\ batch_size' = BatchSize(podAllowed)
          /\ i' = 0 /\ all_data' = <<>> /\ issued' = <<>>
  /\ UNCHANGED <<podVars, rest_calls_this_minute, now, reqTimes, cycle, symbols,
                 day_data, tailVars, ret, cleanVars>>

\* A loop pass without the try/except of lines 199-217: the exception of a
\* request leaves fetch_daily_data and run_scanner.
FetchBatchUncaught ==
  /\ pc = "FetchDailyLoop"
  /\ i < Len(symbols)
  /\ \E resp \in get_historical_bars(Batch(symbols, i, batch_size)) :
       /\ issued' = Append(issued, [batch |-> Batch(symbols, i, batch_size),
                                    raised |-> resp.raised, df |-> resp.df])
       /\ reqTimes' = Append(reqTimes, now)
       /\ IF resp.raised
          THEN /\ all_data' = all_data
               /\ rest_calls_this_minute' = rest_calls_this_minute
               /\ now' = now
               /\ pc' = "Raised" /\ raised' = "RequestError"
          ELSE /\ all_data' = IF resp.df = <<>> THEN all_data ELSE Append(all_data, resp.df)
               /\ rest_calls_this_minute' = rest_calls_this_minute + 1
               /\ now' = now + PauseTicks
               /\ pc' = pc /\ raised' = raised
  /\ i' = i + batch_size
  /\ UNCHANGED <<podVars, cycle, symbols, batch_size, day_data, tailVars, ret, cleanVars>>

\* One pass of the loop of fetch_daily_data, lines 196-217: the request, and
\* after a request that returned the counter and the pause.
FetchBatch ==
  /\ pc = "FetchDailyLoop"
  /\ i < Len(symbols)
  /\ \E resp \in get_historical_bars(Batch(symbols, i, batch_size)) :
       /\ issued' = Append(issued, [batch |-> Batch(symbols, i, batch_size),
                                    raised |-> resp.raised, df |-> resp.df])
       /\ reqTimes' = Append(reqTimes, now)
       /\ IF resp.raised
          THEN /\ all_data' = all_data
               /\ rest_calls_this_minute' = rest_calls_this_minute
               /\ now' = now
          ELSE /\ all_data' = IF resp.df = <<>> THEN all_data ELSE Append(all_data, resp.df)
               /\ rest_calls_this_minute' = rest_calls_this_minute + 1
               /\ now' = now + PauseTicks
  /\ i' = i + batch_size
  /\ UNCHANGED <<podVars, cycle, pc, symbols, batch_size, day_data, tailVars, ret, raised, cleanVars>>

\* fetch_daily_data, line 219: the loop is over and the panel is returned.
FetchDailyEnd ==
  /\ pc = "FetchDailyLoop"
  /\ i >= Len(symbols)
  /\ day_data' \in (IF all_data = <<>> THEN {<<>>} ELSE sort_index(shape, Concat(all_data)))
  /\ pc' = "CleanDaily"
  /\ UNCHANGED <<podVars, rest_calls_this_minute, now, reqTimes, cycle, symbols,
                 fetchVars, tailVars, ret, raised, cleanVars>>

\* The cleaning of the daily panel without the check of lines 241-243: an
\* empty panel goes on to the scoring.
CleanDailyNoGate ==
  /\ pc = "CleanDaily"
  /\ \E cleaned \in clean_stock_data(day_data, shape, 1, TRUE, FALSE) :
       /\ pc' = "ScoreRank"
       /\ ret' = ret
       /\ day_data' \in sort_index(shape, cleaned)
  /\ UNCHANGED <<podVars, rest_calls_this_minute, now, reqTimes, cycle, symbols,
                 fetchVars, tailVars, raised, cleanVars>>

\* run_scanner, lines 239-245: the daily panel is cleaned; an empty one ends
\* the cycle.
CleanDaily ==
  /\ pc = "CleanDaily"
  /\ \E cleaned \in clean_stock_data(day_data, shape, 1, TRUE, FALSE) :
       IF cleaned = <<>>
       THEN /\ pc' = "Aborted"
            /\ ret' = Returned(<<>>, <<>>)
            /\ day_data' = cleaned
       ELSE /\ pc' = "ScoreRank"
            /\ ret' = ret
            /\ day_data' \in sort_index(shape, cleaned)
  /\ UNCHANGED <<podVars, rest_calls_this_minute, now, reqTimes, cycle, symbols,
                 fetchVars, tailVars, raised, cleanVars>>

\* run_scanner, line 247: self.add_relative_strength(day_data) passes two
\* arguments to a function declared with one (no self, no @staticmethod) and
\* raises TypeError.
ScoreRank ==
  /\ pc = "ScoreRank"
  /\ pc' = "Raised"
  /\ raised' = "TypeError"
  /\ UNCHANGED <<podVars, rest_calls_this_minute, now, reqTimes, cycle, symbols,
                 fetchVars, day_data, tailVars, ret, cleanVars>>

\* The caller runs the next scan cycle with the same pod.
NextCycle ==
  /\ pc \in {"Done", "Aborted", "Raised"}
  /\ cycle < MaxCycles
  /\ cycle' = cycle + 1
  /\ pc' = "Idle"
  /\ symbols' = <<>>
  /\ batch_size' = 0 /\ i' = 0 /\ all_data' = <<>> /\ issued' = <<>>
  /\ day_data' = <<>> /\ ranked' = <<>> /\ top_symbols' = <<>> /\ min_data' = <<>>
  /\ minuteReqs' = <<>>
  /\ ret' = NoReturn
  /\ raised' = "none"
  /\ UNCHANGED <<podVars, rest_calls_this_minute, now, reqTimes, cleanVars>>

Next ==
  \/ StartScan
  \/ FetchUniverse
  \/ FetchDailyBegin
  \/ FetchBatch
  \/ FetchDailyEnd
  \/ CleanDaily
  \/ ScoreRank
  \/ NextCycle

Spec == Init /\ [][Next]_vars

\* -------------------------------------- run_scanner from the RankedList on
\* Lines 250-284 of run_scanner, entered with the RankedList rank_daily
\* returned: rows of one timestamp, score > 0.4 (scores in hundredths), sorted
\* by score descending. Under Spec this part is never entered, since line 247
\* raises; it is checked here on its own, from every RankedList drawn.

RankPool == <<"A", "B", "C", "D", "E", "F", "G", "H", "I", "J", "K", "L", "M", "N">>

\* A RankedList of n entries; with dup, its second row repeats the symbol of
\* the first (a panel that was not deduplicated).
RankedOf(n, dup) ==
  [k \in 1..n |-> [symbol |-> IF dup /\ k = 2 THEN RankPool[1] ELSE RankPool[k],
                   score |-> 100 - k]]

InitTail ==
  /\ podHasBudget = TRUE
  /\ podAllowed = MaxBudget
  /\ rest_calls_this_minute = 0
  /\ shape \in {"multi", "flat"}
  /\ now = 0
  /\ reqTimes = <<>>
  /\ cycle = 1
  /\ pc = "Ranked"
  /\ symbols = RankPool \o <<Benchmark>>
  /\ batch_size = 0 /\ i = 0 /\ all_data = <<>> /\ issued = <<>>
  /\ day_data = BarsOf(symbols, 1)
  /\ \E n \in 0..Min(MaxRanked, Len(RankPool)), dup \in BOOLEAN : ranked = RankedOf(n, dup)
  /\ top_symbols = <<>> /\ min_data = <<>>
  /\ minuteReqs = <<>>
  /\ ret = NoReturn
  /\ raised = "none"
  /\ call = NoCall /\ result = NoResult

\* run_scanner, lines 252-261: an empty RankedList ends the cycle; else the
\* symbols of its first rows are taken.
RankedGate ==
  /\ pc = "Ranked"
  /\ IF ranked = <<>>
     THEN /\ pc' = "Aborted"
          /\ ret' = Returned(<<>>, <<>>)
          /\ top_symbols' = top_symbols
     ELSE /\ pc' = "FetchIntraday"
          /\ ret' = ret
          /\ top_symbols' = TopSymbols(ranked)
  /\ UNCHANGED <<podVars, rest_calls_this_minute, now, reqTimes, cycle, symbols,
                 fetchVars, day_data, ranked, min_data, minuteReqs, raised, cleanVars>>

\* run_scanner, lines 266-271: the minute bars of the top symbols are
\* requested. The call is in no try: an exception of the request leaves
\* run_scanner. The request is neither counted nor followed by a pause.
FetchIntraday ==
  /\ pc = "FetchIntraday"
  /\ \E resp \in get_historical_bars(top_symbols) :
       /\ minuteReqs' = Append(minuteReqs, [symbols |-> top_symbols, raised |-> resp.raised])
       /\ IF resp.raised
          THEN /\ pc' = "Raised" /\ raised' = "RequestError"
               /\ min_data' = min_data
          ELSE /\ pc' = "CleanIntraday" /\ raised' = raised
               /\ min_data' = resp.df
  /\ reqTimes' = Append(reqTimes, now)
  /\ UNCHANGED <<podVars, rest_calls_this_minute, now, cycle, symbols,
                 fetchVars, day_data, ranked, top_symbols, ret, cleanVars>>

\* run_scanner, lines 273-278: the minute panel is cleaned; an empty one
\* returns the RankedList with an empty ConfirmedSet.
CleanIntraday ==
  /\ pc = "CleanIntraday"
  /\ \E cleaned \in clean_stock_data(min_data, shape, 1, TRUE, FALSE) :
       IF cleaned = <<>>
       THEN /\ pc' = "Aborted"
            /\ ret' = Returned(ranked, <<>>)
            /\ min_data' = cleaned
       ELSE /\ pc' = "Confirm"
            /\ ret' = ret
            /\ min_data' \in sort_index(shape, cleaned)
  /\ UNCHANGED <<podVars, rest_calls_this_minute, now, reqTimes, cycle, symbols,
                 fetchVars, day_data, ranked, top_symbols, minuteReqs, raised, cleanVars>>

\* run_scanner, line 280: intraday_filter. A cleaned panel that is not empty
\* has an unnamed datetime index (any other shape was emptied by the
\* cleaning), and intraday_filter's index.get_level_values('timestamp')
\* raises KeyError on it (scanner.py line 173).
Confirm ==
  /\ pc = "Confirm"
  /\ shape # "multi"
  /\ pc' = "Raised"
  /\ raised' = "KeyError"
  /\ UNCHANGED <<podVars, rest_calls_this_minute, now, reqTimes, cycle, symbols,
                 fetchVars, day_data, tailVars, ret, cleanVars>>

NextTail ==
  \/ RankedGate
  \/ FetchIntraday
  \/ CleanIntraday
  \/ Confirm

SpecTail == InitTail /\ [][NextTail]_vars

\* The scan cycle and the part from the RankedList on, side by side.
InitAll == Init \/ InitTail

NextAll == Next \/ NextTail

SpecAll == InitAll /\ [][NextAll]_vars

\* --------------------------------------------- clean_stock_data on its own
\* CleanData.clean_stock_data as a function of its arguments: every panel of
\* at most MaxRows rows, of every shape. The close of row k is k or missing,
\* so a value found in the result names the row it came from.

CleanSymbols(sh) == IF sh = "single" THEN {NoSymbol} ELSE {"A", "B"}

RawIndex == {[t |-> 1, fmt |-> "ts"], [t |-> 1, fmt |-> "str"], [t |-> 2, fmt |-> "ts"],
             [t |-> 2, fmt |-> "bad"]}

Panels(sh) ==
  UNION {{p \in [1..n -> [symbol : CleanSymbols(sh), idx : RawIndex, close : 0..n]] :
            \A k \in 1..n : p[k].close \in {NaN, k}} : n \in 0..MaxRows}

InitClean ==
  /\ podHasBudget = TRUE
  /\ podAllowed = MaxBudget
  /\ rest_calls_this_minute = 0
  /\ shape = "single"
  /\ now = 0
  /\ reqTimes = <<>>
  /\ cycle = 1
  /\ pc = "CleanCall"
  /\ symbols = <<>>
  /\ batch_size = 0 /\ i = 0 /\ all_data = <<>> /\ issued = <<>>
  /\ day_data = <<>> /\ ranked = <<>> /\ top_symbols = <<>> /\ min_data = <<>>
  /\ minuteReqs = <<>>
  /\ ret = NoReturn
  /\ raised = "none"
  /\ \E sh \in Shapes, b \in BOOLEAN, rs \in {<<FALSE, 1>>, <<TRUE, 1>>, <<TRUE, 2>>} :
       \E rows \in Panels(sh) :
         call = [rows |-> rows, shape |-> sh, w |-> rs[2], allow_bfill |-> b, resample |-> rs[1]]
  /\ result = NoResult

\* CleanData.clean_stock_data(call.rows, ...) returns.
CleanCall ==
  /\ pc = "CleanCall"
  /\ \E out \in clean_stock_data(call.rows, call.shape, call.w, call.allow_bfill, call.resample) :
       result' = [done |-> TRUE, rows |-> out]
  /\ pc' = "CleanReturned"
  /\ UNCHANGED <<podVars, rest_calls_this_minute, now, reqTimes, cycle, symbols,
                 fetchVars, day_data, tailVars, ret, raised, call>>

NextClean == CleanCall

SpecClean == InitClean /\ [][NextClean]_vars

\* ------------------------------------------------------- fetch_daily_data

\* The number of batches of at most b symbols that n symbols make.
CeilDiv(n, b) == (n + b - 1) \div b

\* fetch_daily_data of the current cycle has returned.
FetchReturned ==
  \/ pc \in {"CleanDaily", "ScoreRank"}
  \/ pc \in {"Aborted", "Raised"} /\ issued # <<>>

\* C1: for a list of N symbols and a batch size b = min(200, budget // 2) >= 1,
\* the k-th bar request of fetch_daily_data carries the k-th consecutive slice
\* of at most b symbols, there are never more than ceil(N/b) requests, and when
\* fetch_daily_data has returned there are exactly ceil(N/b) of them, which
\* together name every symbol of the list once and in list order.
C1_BatchesAreConsecutiveSlices ==
  (pc = "FetchDailyLoop" \/ FetchReturned) =>
    LET N == Len(symbols)
        half == podAllowed \div 2
        b == IF half < 200 THEN half ELSE 200
    IN  /\ podHasBudget /\ b >= 1
        /\ Len(issued) <= CeilDiv(N, b)
        /\ \A k \in DOMAIN issued :
             /\ issued[k].batch # <<>>
             /\ Len(issued[k].batch) <= b
             /\ issued[k].batch =
                  [m \in 1..(IF k * b <= N THEN b ELSE N - (k - 1) * b) |-> symbols[(k - 1) * b + m]]
        /\ FetchReturned =>
             /\ Len(issued) = CeilDiv(N, b)
             /\ Concat([k \in DOMAIN issued |-> issued[k].batch]) = symbols

\* fetch_daily_data returned after two requests for three symbols, the second
\* request carrying the one symbol left over.
C1_Witness ==
  /\ pc = "CleanDaily"
  /\ Len(symbols) = 3
  /\ Len(issued) = 2
  /\ Len(issued[1].batch) = 2
  /\ Len(issued[2].batch) = 1

\* The rows the requests of the current fetch_daily_data call returned.
ReturnedRows == UNION {Range(issued[k].df) : k \in {j \in DOMAIN issued : ~issued[j].raised}}

\* C2: when the request of a batch raises, no exception leaves
\* fetch_daily_data, the batches after it are still requested, and the panel
\* fetch_daily_data returns holds every bar the successful requests returned
\* and no bar of a symbol of a failed batch; it is empty when every request
\* failed.
C2_FailedBatchIsSkipped ==
  /\ raised # "RequestError"
  /\ pc = "FetchDailyLoop" => raised = "none"
  /\ pc = "CleanDaily" =>
       /\ \A k \in DOMAIN issued :
            (issued[k].raised /\ k * batch_size < Len(symbols)) => (k + 1) \in DOMAIN issued
       /\ Range(day_data) = ReturnedRows
       /\ Len(day_data) = Cardinality(ReturnedRows)
       /\ \A k \in DOMAIN issued : issued[k].raised =>
            \A r \in DOMAIN day_data : day_data[r].symbol \notin Range(issued[k].batch)
       /\ (\A k \in DOMAIN issued : issued[k].raised) => day_data = <<>>

\* The first request raised, a later one returned bars, and fetch_daily_data
\* returned a panel that is not empty.
C2_Witness ==
  /\ pc = "CleanDaily"
  /\ Len(issued) >= 2
  /\ issued[1].raised
  /\ \E k \in DOMAIN issued : k > 1 /\ ~issued[k].raised /\ issued[k].df # <<>>
  /\ day_data # <<>>

\* C3: every bar request of fetch_daily_data, whether it returned bars, an
\* empty result or raised, is followed by one increment of
\* rest_calls_this_minute and by the pause of 0.5 s: the counter equals the
\* number of requests issued and the clock has advanced by one pause per
\* request.
C3_EveryRequestCountedAndPaced ==
  /\ rest_calls_this_minute = Len(reqTimes)
  /\ now = PauseTicks * Len(reqTimes)

\* C4: over the scan cycles sharing one pod, the bar requests issued within
\* any window of one minute are never more than the pod's
\* allowed_rest_calls_per_minute.
C4_RequestsPerMinuteWithinBudget ==
  podHasBudget =>
    \A k \in DOMAIN reqTimes :
      Cardinality({j \in DOMAIN reqTimes :
                     reqTimes[k] - MinuteTicks < reqTimes[j] /\ reqTimes[j] <= reqTimes[k]})
        <= podAllowed

\* ------------------------------------------------------------ run_scanner

\* run_scanner returns (empty DataFrame, empty DataFrame) in this step, without
\* raising and without issuing a request.
AbortsEmptyHanded ==
  /\ pc' = "Aborted"
  /\ ret' = Returned(<<>>, <<>>)
  /\ raised' = "none"
  /\ reqTimes' = reqTimes /\ issued' = issued /\ minuteReqs' = minuteReqs

\* What a step of a cycle does on an empty universe, an empty cleaned daily
\* panel or an empty ranked list, and what a cycle that ended this way still does.
C5_Step ==
  /\ (pc = "FetchUniverse" /\ pc' # pc /\ symbols' = <<>>) => AbortsEmptyHanded
  /\ (pc = "CleanDaily" /\ pc' # pc /\ day_data' = <<>>) => AbortsEmptyHanded
  /\ (pc = "Ranked" /\ pc' # pc /\ ranked = <<>>) => AbortsEmptyHanded
  /\ pc = "Aborted" =>
       /\ pc' \in {"Aborted", "Idle"}
       /\ reqTimes' = reqTimes
       /\ pc' = "Aborted" => (ret' = ret /\ raised' = raised /\ issued' = issued
                                /\ minuteReqs' = minuteReqs)

\* C5: an empty universe (also when the universe fetch raised), an empty
\* cleaned daily panel and an empty ranked list each end the cycle in the very
\* step that finds them: run_scanner returns an empty RankedList and an empty
\* ConfirmedSet and raises nothing, and from then on the cycle runs no stage
\* and issues no request.
C5_EmptyStageEndsCycle == [][C5_Step]_vars

\* A cycle that requested daily bars, got an empty cleaned panel and returned
\* empty-handed.
C5_Witness ==
  /\ pc = "Aborted"
  /\ issued # <<>>
  /\ day_data = <<>>
  /\ ret = Returned(<<>>, <<>>)
  /\ raised = "none"

\* C6: a scan cycle goes through its stages in order and ends in Done or
\* Aborted; a cycle whose cleaned daily panel is not empty goes on past
\* ScoreRank with a RankedList, so no cycle holding a cleaned daily panel that
\* is not empty ends by an exception.
C6_CleanedPanelIsRanked ==
  (day_data # <<>> /\ pc # "CleanDaily") => pc \in {"ScoreRank", "Ranked", "FetchIntraday",
                                                     "CleanIntraday", "Confirm", "Done", "Aborted"}

\* C7: a cycle issues at most one minute-bar request; it names at most 10
\* symbols, each the symbol of one of the first 10 entries of the cycle's
\* RankedList.
C7_IntradayRequestIsTopTen ==
  /\ Len(minuteReqs) <= 1
  /\ \A k \in DOMAIN minuteReqs :
       /\ Len(minuteReqs[k].symbols) <= 10
       /\ \A s \in Range(minuteReqs[k].symbols) :
            \E j \in 1..10 : j <= Len(ranked) /\ ranked[j].symbol = s

\* A RankedList of more than 10 entries, and a minute-bar request for 10 symbols.
C7_Witness ==
  /\ Len(ranked) > 10
  /\ minuteReqs # <<>>
  /\ Len(minuteReqs[1].symbols) = 10

FirstOccurrence(r) ==
  CHOOSE j \in DOMAIN call.rows :
    /\ call.rows[j].symbol = r.symbol /\ call.rows[j].idx.t = r.idx.t
    /\ \A h \in 1..(j - 1) : ~(call.rows[h].symbol = r.symbol /\ call.rows[h].idx.t = r.idx.t)

\* C9: in the panel clean_stock_data returns, the rows of one symbol have
\* strictly increasing timestamps (so no (symbol, timestamp) pair occurs
\* twice), and the bar kept for a pair is the first one the input holds for it
\* (a bar whose close is not missing is returned with that close).
C9_CleanedPanelIsOrderedAndKeepsFirst ==
  result.done =>
    /\ \A a, b \in DOMAIN result.rows :
         (a < b /\ result.rows[a].symbol = result.rows[b].symbol)
           => result.rows[a].idx.t < result.rows[b].idx.t
    /\ ~call.resample =>
         \A a \in DOMAIN result.rows :
           LET j == FirstOccurrence(result.rows[a])
           IN  call.rows[j].close # NaN => result.rows[a].close = call.rows[j].close

\* C10: every value the gap filling writes into a bar comes from a bar of the
\* same symbol (the close of input row k is k, so a value names its row).
C10_FillStaysInsideSymbol ==
  (result.done /\ ~call.resample) =>
    \A a \in DOMAIN result.rows :
      result.rows[a].close # NaN =>
        call.rows[result.rows[a].close].symbol = result.rows[a].symbol

\* ------------------------------- clean_stock_data and the cycle calling it
\* The scan cycle and the calls of clean_stock_data on every panel, side by
\* side.
InitCleanScan == Init \/ InitClean

NextCleanScan == Next \/ NextClean

SpecCleanScan == InitCleanScan /\ [][NextCleanScan]_vars

\* A stage of the cleaning raises on the panel: pd.to_datetime on a MultiIndex
\* or on an index value that is no date, the ['index', 'symbol'] selection on
\* a named index, the resampling of a frame without rows and columns.
StageRaises(rows, sh, resample) ==
  \/ rows # <<>> /\ sh \in {"multi", "named"}
  \/ \E k \in DOMAIN rows : rows[k].idx.fmt = "bad"
  \/ resample /\ rows = <<>>

C11_Step ==
  /\ (pc = "CleanCall" /\ pc' = "CleanReturned"
        /\ StageRaises(call.rows, call.shape, call.resample))
       => (result'.done /\ result'.rows = <<>> /\ raised' = "none")
  /\ (pc = "CleanDaily" /\ pc' # pc /\ StageRaises(day_data, shape, FALSE))
       => (pc' = "Aborted" /\ raised' = "none" /\ ret' = Returned(<<>>, <<>>)
             /\ day_data' = <<>>)

\* C11: clean_stock_data propagates no exception: a call on which a stage
\* raises returns an empty panel, and the scan cycle whose daily panel makes
\* a stage raise ends with an empty result, raising nothing.
C11_CleaningNeverRaises == [][C11_Step]_vars

\* A call whose deduplication raised (index named 'timestamp') and that
\* returned an empty panel.
C11_Witness ==
  /\ result.done
  /\ call.shape = "named"
  /\ call.rows # <<>>
  /\ \A k \in DOMAIN call.rows : call.rows[k].idx.fmt # "bad"
  /\ result.rows = <<>>

\* ------------------------------------------------------------ Indicators
\* The indicators of scanner/indicators.py on a panel with a MultiIndex
\* (symbol, timestamp), sorted. A row is
\* [symbol, day, minute, open, high, low, close, volume]; a value of an
\* indicator is an exact fraction <<n, d>> in lowest terms with d > 0, or
\* Undef (NaN).

Undef == <<0, 0>>

IsDef(x) == x[2] # 0

Abs(n) == IF n < 0 THEN -n ELSE n

RECURSIVE GCD(_, _)
GCD(a, b) == IF b = 0 THEN a ELSE GCD(b, a % b)

\* The fraction n/d in lowest terms; x/0 is NaN or +-inf for a float, taken
\* as Undef (no panel drawn divides by an unreplaced 0).
Frac(n, d) ==
  IF d = 0 THEN Undef
  ELSE LET g == GCD(Abs(n), Abs(d))
           sg == IF d < 0 THEN -1 ELSE 1
       IN  <<sg * (n \div g), sg * (d \div g)>>

Num(n) == <<n, 1>>

RAdd(x, y) == IF IsDef(x) /\ IsDef(y) THEN Frac(x[1] * y[2] + y[1] * x[2], x[2] * y[2]) ELSE Undef

RSub(x, y) == IF IsDef(x) /\ IsDef(y) THEN Frac(x[1] * y[2] - y[1] * x[2], x[2] * y[2]) ELSE Undef

RMul(x, y) == IF IsDef(x) /\ IsDef(y) THEN Frac(x[1] * y[1], x[2] * y[2]) ELSE Undef

RDiv(x, y) == IF IsDef(x) /\ IsDef(y) THEN Frac(x[1] * y[2], x[2] * y[1]) ELSE Undef

\* x < y; a comparison with NaN is False.
RLess(x, y) == IsDef(x) /\ IsDef(y) /\ x[1] * y[2] < y[1] * x[2]

\* Series.replace(0, np.nan)
ReplaceZero(x) == IF IsDef(x) /\ x[1] = 0 THEN Undef ELSE x

RECURSIVE RSumRange(_, _, _)
\* The sum of the values lo..hi of a sequence (by halves, to keep the
\* evaluation shallow); NaN if one of them is NaN.
RSumRange(xs, lo, hi) ==
  IF lo > hi THEN Num(0)
  ELSE IF lo = hi THEN xs[lo]
  ELSE LET mid == (lo + hi) \div 2
       IN  RAdd(RSumRange(xs, lo, mid), RSumRange(xs, mid + 1, hi))

\* The sum of a sequence of values (a rolling window with min_periods equal to
\* its width, a cumulative sum).
RSum(xs) == RSumRange(xs, 1, Len(xs))

\* _symbol_index / _groupby_symbol: the key of the per-symbol groups.
BySymbol == "symbol"

\* groupby([sym, session]): the key of the per-symbol, per-day groups.
BySession == "session"

\* groupby(['symbol', 'minute'])
ByMinute == "minute"

\* The group key of the row r.
KeyOf(r, key) ==
  CASE key = BySymbol -> <<r.symbol>>
    [] key = BySession -> <<r.symbol, r.day>>
    [] key = ByMinute -> <<r.symbol, r.minute>>

\* The positions up to k of the rows of the group of row k, in panel order.
GroupUpTo(rows, k, key) ==
  SelectSeq([j \in 1..k |-> j], LAMBDA j : KeyOf(rows[j], key) = KeyOf(rows[k], key))

\* The last w elements of a sequence of at least w elements.
LastN(xs, w) == SubSeq(xs, Len(xs) - w + 1, Len(xs))

\* A rolling mean that needs one observation only (min_periods=1).
RollingMeanPartial(xs, w) ==
  LET n == IF Len(xs) < w THEN Len(xs) ELSE w
  IN  RDiv(RSum(LastN(xs, n)), Num(n))

\* x.rolling(window, min_periods=window).mean() at the last element of xs.
RollingMean(xs, w) ==
  IF Len(xs) < w THEN Undef ELSE RDiv(RSum(LastN(xs, w)), Num(w))

RECURSIVE Ewm(_, _)
\* x.ewm(alpha=a, adjust=False).mean() at the last element of xs: NaN up to
\* the first value that is not NaN, that value there, then
\* (1 - a) * previous + a * x.
Ewm(xs, a) ==
  IF xs = <<>> THEN Undef
  ELSE LET prev == Ewm(SubSeq(xs, 1, Len(xs) - 1), a)
           x == xs[Len(xs)]
       IN  IF ~IsDef(prev) THEN x
           ELSE IF ~IsDef(x) THEN prev
           ELSE RAdd(RMul(RSub(Num(1), a), prev), RMul(a, x))

\* The column col of the rows at the positions ps.
Column(rows, ps, col) == [m \in DOMAIN ps |-> Num(rows[ps[m]][col])]

\* A rolling mean over the whole frame, without the groupby.
sma_ungrouped(rows, k, window, column) ==
  RollingMean(Column(rows, [j \in 1..k |-> j], column), window)

\* Indicators.sma at row k.
sma(rows, k, window, column) ==
  RollingMean(Column(rows, GroupUpTo(rows, k, BySymbol), column), window)

\* Indicators.ema at row k: ewm(span=span) is alpha = 2 / (span + 1).
ema(rows, k, span, column) ==
  Ewm(Column(rows, GroupUpTo(rows, k, BySymbol), column), Frac(2, span + 1))

\* x.diff(): NaN at the first element.
Diff(xs) == [m \in DOMAIN xs |-> IF m = 1 THEN Undef ELSE RSub(xs[m], xs[m - 1])]

\* clip(lower=0) and the negated clip(upper=0); NaN stays NaN.
Gain(x) == IF IsDef(x) /\ x[1] < 0 THEN Num(0) ELSE x

Loss(x) == IF ~IsDef(x) THEN Undef ELSE IF x[1] > 0 THEN Num(0) ELSE <<-x[1], x[2]>>

\* Indicators.rsi at row k (Wilder: alpha = 1 / period).
rsi(rows, k, period, column) ==
  LET x == Column(rows, GroupUpTo(rows, k, BySymbol), column)
      delta == Diff(x)
      avg_gain == Ewm([m \in DOMAIN delta |-> Gain(delta[m])], Frac(1, period))
      avg_loss == Ewm([m \in DOMAIN delta |-> Loss(delta[m])], Frac(1, period))
      rs == RDiv(avg_gain, ReplaceZero(avg_loss))
  IN  RSub(Num(100), RDiv(Num(100), RAdd(Num(1), rs)))

\* Indicators.macd at row k.
macd(rows, k, fast, slow, signal, column) ==
  LET ps == GroupUpTo(rows, k, BySymbol)
      macd_line == [m \in DOMAIN ps |->
                      RSub(ema(rows, ps[m], fast, column), ema(rows, ps[m], slow, column))]
      signal_line == Ewm(macd_line, Frac(2, signal + 1))
  IN  [macd |-> macd_line[Len(ps)], signal |-> signal_line,
       hist |-> RSub(macd_line[Len(ps)], signal_line)]

\* x.rolling(window, min_periods=window).std() squared, at the last element
\* of xs: the sum of the squared deviations over window - 1.
RollingVar(xs, w) ==
  IF Len(xs) < w THEN Undef
  ELSE LET mean == RollingMean(xs, w)
           last == LastN(xs, w)
           dev == [m \in DOMAIN last |-> RMul(RSub(last[m], mean), RSub(last[m], mean))]
       IN  RDiv(RSum(dev), Num(w - 1))

\* Indicators.bollinger_bands at row k: bb_mid and the square of the rolling
\* std; bb_upper and bb_lower are bb_mid +- stds * std.
bollinger_bands(rows, k, window, column) ==
  [bb_mid |-> sma(rows, k, window, column),
   std2 |-> RollingVar(Column(rows, GroupUpTo(rows, k, BySymbol), column), window)]

\* Indicators.rvol at row k.
rvol(rows, k, window, column) ==
  LET avg_vol == RollingMean(Column(rows, GroupUpTo(rows, k, BySymbol), column), window)
  IN  RDiv(Num(rows[k][column]), ReplaceZero(avg_vol))

Max(a, b) == IF a >= b THEN a ELSE b

\* Indicators.atr at row k: the true range (max over the columns that are not
\* NaN), smoothed with alpha = 1 / period.
atr(rows, k, period) ==
  LET ps == GroupUpTo(rows, k, BySymbol)
      tr == [m \in DOMAIN ps |->
               LET r == rows[ps[m]]
               IN  IF m = 1 THEN Num(r.high - r.low)
                   ELSE LET prev_close == rows[ps[m - 1]].close
                        IN  Num(Max(r.high - r.low,
                                    Max(Abs(r.high - prev_close), Abs(r.low - prev_close))))]
  IN  Ewm(tr, Frac(1, period))

\* A VWAP accumulated over all the bars of the symbol, without the session.
vwap_no_reset(rows, k) ==
  LET ps == GroupUpTo(rows, k, BySymbol)
      cum_vol == RSum(Column(rows, ps, "volume"))
      cum_vp == RSum([m \in DOMAIN ps |->
                        LET r == rows[ps[m]]
                        IN  RMul(Frac(r.high + r.low + r.close, 3), Num(r.volume))])
  IN  RDiv(cum_vp, ReplaceZero(cum_vol))

\* Indicators.vwap at row k: cumulative sums within the symbol and the
\* calendar day of the row.
vwap(rows, k) ==
  LET ps == GroupUpTo(rows, k, BySession)
      cum_vol == RSum(Column(rows, ps, "volume"))
      cum_vp == RSum([m \in DOMAIN ps |->
                        LET r == rows[ps[m]]
                        IN  RMul(Frac(r.high + r.low + r.close, 3), Num(r.volume))])
  IN  RDiv(cum_vp, ReplaceZero(cum_vol))

\* The cumulative volume of the session of row k up to row k.
CumVol(rows, k) == RSum(Column(rows, GroupUpTo(rows, k, BySession), "volume"))

\* Indicators.intraday_rvol at row k: the cumulative volume over the mean of
\* it at the same minute of the lookback_days sessions before.
intraday_rvol(rows, k, lookback_days) ==
  LET ps == GroupUpTo(rows, k, ByMinute)
      before == [m \in 1..(Len(ps) - 1) |-> CumVol(rows, ps[m])]
      avg_cum_vol == RollingMean(before, lookback_days)
  IN  RDiv(CumVol(rows, k), ReplaceZero(avg_cum_vol))

\* Scanner.is_bullish_engulfing at row k (prev: the row before of the symbol).
is_bullish_engulfing(rows, k) ==
  LET ps == GroupUpTo(rows, k, BySymbol)
  IN  /\ Len(ps) > 1
      /\ LET prev == rows[ps[Len(ps) - 1]]
             df == rows[k]
         IN  /\ prev.close < prev.open
             /\ df.close > df.open
             /\ df.close >= prev.open
             /\ df.open <= prev.close

\* clip(lo, hi) of a value; NaN stays NaN.
Clip(x, lo, hi) == IF ~IsDef(x) THEN Undef ELSE IF RLess(x, lo) THEN lo ELSE IF RLess(hi, x) THEN hi ELSE x

\* Scanner.gap_score at row k.
gap_score(rows, k) ==
  LET ps == GroupUpTo(rows, k, BySymbol)
      prev_close == IF Len(ps) > 1 THEN Num(rows[ps[Len(ps) - 1]].close) ELSE Undef
      gap == RDiv(RSub(Num(rows[k].open), prev_close), prev_close)
  IN  RDiv(Clip(gap, Num(0), Frac(5, 100)), Frac(5, 100))

\* ------------------------------------------- the indicators on their own
\* Every indicator applied to every panel of two symbols: up to MaxBars bars
\* of "A" followed by up to MaxOtherBars bars of "B", each symbol's bars at
\* increasing minutes of two days.

TimePool == <<[day |-> 1, minute |-> 1], [day |-> 1, minute |-> 2],
              [day |-> 2, minute |-> 1], [day |-> 2, minute |-> 2]>>

\* A falling bar, a rising bar that engulfs it, a bar without volume that
\* opens above the close of the first.
BarPool == <<[open |-> 2, high |-> 2, low |-> 1, close |-> 1, volume |-> 1],
             [open |-> 1, high |-> 3, low |-> 1, close |-> 2, volume |-> 2],
             [open |-> 2, high |-> 2, low |-> 2, close |-> 2, volume |-> 0]>>

MkRow(sym, t, b) ==
  [symbol |-> sym, day |-> TimePool[t].day, minute |-> TimePool[t].minute,
   open |-> BarPool[b].open, high |-> BarPool[b].high, low |-> BarPool[b].low,
   close |-> BarPool[b].close, volume |-> BarPool[b].volume]

\* The partitions of one symbol: at most n bars, drawn from the first nb bars
\* of BarPool, at strictly increasing times.
Partitions(sym, n, nb) ==
  UNION {{[k \in 1..m |-> MkRow(sym, ts[k], bs[k])] :
            ts \in {t \in [1..m -> DOMAIN TimePool] : \A a \in 1..(m - 1) : t[a] < t[a + 1]},
            bs \in [1..m -> 1..nb]} : m \in 0..n}

IndicatorCalls ==
  {[name |-> "sma", p |-> w] : w \in 1..MaxWindow}
    \cup {[name |-> n, p |-> 2] : n \in {"rvol", "rsi", "atr", "bollinger_bands"}}
    \cup {[name |-> n, p |-> 1] : n \in {"intraday_rvol"}}
    \cup {[name |-> n, p |-> 3] : n \in {"ema", "macd"}}
    \cup {[name |-> n, p |-> 0] : n \in {"vwap", "is_bullish_engulfing", "gap_score"}}

\* The value of the called indicator at row k of the panel.
Indicator(c, rows, k) ==
  CASE c.name = "sma" -> sma(rows, k, c.p, "close")
    [] c.name = "ema" -> ema(rows, k, c.p, "close")
    [] c.name = "rsi" -> rsi(rows, k, c.p, "close")
    [] c.name = "macd" -> macd(rows, k, 1, c.p, c.p, "close")
    [] c.name = "bollinger_bands" -> bollinger_bands(rows, k, c.p, "close")
    [] c.name = "rvol" -> rvol(rows, k, c.p, "volume")
    [] c.name = "atr" -> atr(rows, k, c.p)
    [] c.name = "vwap" -> vwap(rows, k)
    [] c.name = "intraday_rvol" -> intraday_rvol(rows, k, c.p)
    [] c.name = "is_bullish_engulfing" -> is_bullish_engulfing(rows, k)
    [] c.name = "gap_score" -> gap_score(rows, k)

InitInd ==
  /\ podHasBudget = TRUE
  /\ podAllowed = MaxBudget
  /\ rest_calls_this_minute = 0
  /\ shape = "multi"
  /\ now = 0
  /\ reqTimes = <<>>
  /\ cycle = 1
  /\ pc = "IndicatorCall"
  /\ symbols = <<>>
  /\ batch_size = 0 /\ i = 0 /\ all_data = <<>> /\ issued = <<>>
  /\ day_data = <<>> /\ ranked = <<>> /\ top_symbols = <<>> /\ min_data = <<>>
  /\ minuteReqs = <<>>
  /\ ret = NoReturn
  /\ raised = "none"
  /\ \E c \in IndicatorCalls, a \in Partitions("A", MaxBars, Len(BarPool)),
        b \in Partitions("B", MaxOtherBars, 2) :
       call = [fn |-> c, rows |-> a \o b]
  /\ result = NoResult

\* The indicator returns its series: one value per row of the panel.
IndicatorCall ==
  /\ pc = "IndicatorCall"
  /\ result' = [done |-> TRUE, rows |-> [k \in DOMAIN call.rows |-> Indicator(call.fn, call.rows, k)]]
  /\ pc' = "IndicatorReturned"
  /\ UNCHANGED <<podVars, rest_calls_this_minute, now, reqTimes, cycle, symbols,
                 fetchVars, day_data, tailVars, ret, raised, call>>

NextInd == IndicatorCall

SpecInd == InitInd /\ [][NextInd]_vars

\* The positions of the rows of symbol sym in the panel, in panel order.
PositionsOf(rows, sym) == SelectSeq([j \in DOMAIN rows |-> j], LAMBDA j : rows[j].symbol = sym)

\* C12: the values an indicator or a scoring feature gives to the bars of a
\* symbol are those it gives them in the panel that holds the bars of that
\* symbol alone: they do not depend on the bars of the other symbols.
C12_IndicatorsAreIsolated ==
  (pc = "IndicatorReturned" /\ result.done) =>
    \A sym \in {"A", "B"} :
      LET ps == PositionsOf(call.rows, sym)
          alone == [m \in DOMAIN ps |-> call.rows[ps[m]]]
      IN  \A m \in DOMAIN ps : result.rows[ps[m]] = Indicator(call.fn, alone, m)

\* An SMA over 2 bars on a panel with 3 bars of A and then 2 of B: B's
\* second bar has a value, computed from B's bars.
C12_Witness ==
  /\ pc = "IndicatorReturned" /\ result.done
  /\ call.fn = [name |-> "sma", p |-> 2]
  /\ Len(PositionsOf(call.rows, "A")) = 3
  /\ Len(PositionsOf(call.rows, "B")) = 2
  /\ IsDef(result.rows[5])
  /\ call.rows[3].close # call.rows[4].close

RECURSIVE SumFn(_, _)
\* The sum of the values of the function f over the set S.
SumFn(f, S) ==
  IF S = {} THEN 0
  ELSE LET j == CHOOSE x \in S : TRUE
       IN  f[j] + SumFn(f, S \ {j})

\* The bars of the symbol and the calendar day of row k, up to row k.
SessionUpTo(rows, k) ==
  {j \in 1..k : rows[j].symbol = rows[k].symbol /\ rows[j].day = rows[k].day}

\* C19: the VWAP at a bar is sum(typical price * volume) / sum(volume) over
\* the bars of the same symbol and calendar day up to the bar; it is undefined
\* while that volume is 0, and the first bar of a session with volume has its
\* own typical price (high + low + close) / 3.
C19_VwapRestartsEachSession ==
  (pc = "IndicatorReturned" /\ result.done /\ call.fn.name = "vwap") =>
    \A k \in DOMAIN call.rows :
      LET S == SessionUpTo(call.rows, k)
          vol == SumFn([j \in S |-> call.rows[j].volume], S)
          pv3 == SumFn([j \in S |-> (call.rows[j].high + call.rows[j].low + call.rows[j].close)
                                      * call.rows[j].volume], S)
          v == result.rows[k]
          r == call.rows[k]
      IN  /\ vol = 0 => ~IsDef(v)
          /\ vol > 0 => (IsDef(v) /\ v[1] * 3 * vol = v[2] * pv3)
          /\ (vol > 0 /\ vol = r.volume) =>
               (IsDef(v) /\ v[1] * 3 = v[2] * (r.high + r.low + r.close))

\* A symbol traded on day 1 and its first bar of day 2 has the typical price
\* of that bar alone, which is not the average over both days.
C19_Witness ==
  /\ pc = "IndicatorReturned" /\ result.done /\ call.fn.name = "vwap"
  /\ \E j, k \in DOMAIN call.rows :
       /\ j < k /\ call.rows[j].symbol = call.rows[k].symbol
       /\ call.rows[j].day = 1 /\ call.rows[k].day = 2
       /\ call.rows[j].volume > 0 /\ call.rows[k].volume > 0
       /\ call.rows[j].high + call.rows[j].low + call.rows[j].close
            # call.rows[k].high + call.rows[k].low + call.rows[k].close
       /\ result.rows[k] = Frac(call.rows[k].high + call.rows[k].low + call.rows[k].close, 3)
  /\ \E k \in DOMAIN call.rows : ~IsDef(result.rows[k])

\* C20: in a panel of several symbols, sma(window) is missing at the first
\* window - 1 bars of each symbol and defined from the symbol's window-th bar
\* on, however many bars of other symbols precede them.
C20_SmaWarmUpPerSymbol ==
  (pc = "IndicatorReturned" /\ result.done /\ call.fn.name = "sma") =>
    \A k \in DOMAIN call.rows :
      LET n == Cardinality({j \in 1..k : call.rows[j].symbol = call.rows[k].symbol})
      IN  IsDef(result.rows[k]) <=> n >= call.fn.p

\* An SMA over 2 bars: B's first bar, after 2 bars of A, has no value and B's
\* second bar has one.
C20_Witness ==
  /\ pc = "IndicatorReturned" /\ result.done
  /\ call.fn.name = "sma" /\ call.fn.p = 2
  /\ Len(PositionsOf(call.rows, "A")) = 2
  /\ Len(PositionsOf(call.rows, "B")) = 2
  /\ ~IsDef(result.rows[3])
  /\ IsDef(result.rows[4])

\* ------------------------------------------------------ calculate_scores
\* Scanner.calculate_scores on one row, from what the indicators give for
\* it: close and ema200, the engulfing flag, rvol, open and the previous
\* close, and the rs_spy column with its 50-bar mean when the panel has one.

\* The default weights (lines 84-90).
Weights ==
  [trend |-> Frac(25, 100), engulf |-> Frac(15, 100), rvol |-> Frac(20, 100),
   gap |-> Frac(15, 100), rs |-> Frac(25, 100)]

\* trend_strength = ((close - ema200) / ema200).clip(0, 0.2) / 0.2
trend_strength(close, ema200) ==
  RDiv(Clip(RDiv(RSub(close, ema200), ema200), Num(0), Frac(2, 10)), Frac(2, 10))

\* engulf = is_bullish_engulfing(df).astype(float)
engulf_score(flag) == IF flag THEN Num(1) ELSE Num(0)

\* An RVOL score without the clip.
rvol_score_unclipped(rv) == RDiv(rv, Num(5))

\* rvol_score = (rvol / 5.0).clip(0, 1)
rvol_score(rv) == Clip(RDiv(rv, Num(5)), Num(0), Num(1))

\* gap_score from the open and the previous close of the row.
gap_of(open, prev_close) ==
  RDiv(Clip(RDiv(RSub(open, prev_close), prev_close), Num(0), Frac(5, 100)), Frac(5, 100))

\* rs_score = ((rs_spy - rs_sma) / rs_sma).clip(0, 0.1) / 0.1 when the panel
\* has an rs_spy column, else the constant 0.
rs_score(has_rs, rs_spy, rs_sma) ==
  IF has_rs
  THEN RDiv(Clip(RDiv(RSub(rs_spy, rs_sma), rs_sma), Num(0), Frac(1, 10)), Frac(1, 10))
  ELSE Num(0)

\* fillna(0)
FillNa0(x) == IF IsDef(x) THEN x ELSE Num(0)

\* A composite that leaves a missing feature out of the sum.
WeightedSumSkippingMissing(t, e, r, g, rs) ==
  RAdd(RAdd(RAdd(RAdd(RMul(FillNa0(t), Weights.trend), RMul(FillNa0(e), Weights.engulf)),
                 RMul(FillNa0(r), Weights.rvol)),
            RMul(FillNa0(g), Weights.gap)),
       RMul(FillNa0(rs), Weights.rs))

\* total = trend * w + engulf * w + rvol_score * w + gap * w + rs_score * w,
\* then total.fillna(0): a sum with a NaN term is NaN.
WeightedSum(t, e, r, g, rs) ==
  FillNa0(RAdd(RAdd(RAdd(RAdd(RMul(t, Weights.trend), RMul(e, Weights.engulf)),
                         RMul(r, Weights.rvol)),
                    RMul(g, Weights.gap)),
               RMul(rs, Weights.rs)))

\* Scanner.calculate_scores on the row c.
calculate_scores(c) ==
  WeightedSum(trend_strength(c.close, c.ema200), engulf_score(c.engulf),
              rvol_score(c.rvol), gap_of(c.open, c.prev_close),
              rs_score(c.has_rs, c.rs_spy, c.rs_sma))

\* add_relative_strength on a panel without SPY: rs_spy = 1.0 on every row.
\* The rs_spy values of the n bars of a symbol up to a row.
RsWithoutBenchmark(n) == [m \in 1..n |-> Num(1)]

\* The number of bars the symbol of the row has up to the row.
HistoryLengths == {1, 2, RvolWindow, RsWindow - 1, RsWindow}

\* The prices of a row and of the bar before it, with the EMA of a long
\* history: a rise that engulfs a falling bar; a gap up; a flat bar; a fall;
\* a small gap up and a small rise; prices below zero, where one bar both
\* engulfs and gaps.
PriceScenarios ==
  {[prev_open |-> 110, prev_close |-> 100, open |-> 100, close |-> 130, ema |-> 100],
   [prev_open |-> 100, prev_close |-> 100, open |-> 110, close |-> 110, ema |-> 100],
   [prev_open |-> 100, prev_close |-> 100, open |-> 100, close |-> 100, ema |-> 100],
   [prev_open |-> 100, prev_close |-> 100, open |-> 90, close |-> 90, ema |-> 100],
   [prev_open |-> 100, prev_close |-> 100, open |-> 102, close |-> 105, ema |-> 100],
   [prev_open |-> -150, prev_close |-> -200, open |-> -220, close |-> -120, ema |-> -100]}

\* is_bullish_engulfing on the row and the bar before it.
Engulfs(prev_open, prev_close, open, close) ==
  /\ prev_close < prev_open
  /\ close > open
  /\ close >= prev_open
  /\ open <= prev_close

\* The rows calculate_scores can meet. What is computed from history is
\* missing while the history is too short (rvol below 20 bars, the previous
\* bar at the first bar, the 50-bar mean of rs_spy below 50 bars); the EMA is
\* the close at the first bar and (199 * previous close + 2 * close) / 201 at
\* the second. rs is "nocolumn" for a panel without rs_spy, "nospy" for one
\* that add_relative_strength filled without benchmark, "spy" for one with
\* benchmark (mean of the ratio 1; ratio 1, 1.05 or 1.2).
ScoreRows ==
  {[n |-> n, close |-> Num(p.close),
    ema200 |-> IF n = 1 THEN Num(p.close)
               ELSE IF n = 2 THEN Frac(199 * p.prev_close + 2 * p.close, 201)
               ELSE Num(p.ema),
    engulf |-> n > 1 /\ Engulfs(p.prev_open, p.prev_close, p.open, p.close),
    rvol |-> IF n < RvolWindow THEN Undef ELSE rv,
    open |-> Num(p.open), prev_close |-> IF n = 1 THEN Undef ELSE Num(p.prev_close),
    rs |-> rs[1], has_rs |-> rs[1] # "nocolumn",
    rs_spy |-> rs[2],
    rs_sma |-> IF rs[1] = "nocolumn" THEN Undef
               ELSE IF rs[1] = "nospy" THEN RollingMean(RsWithoutBenchmark(n), RsWindow)
               ELSE IF n < RsWindow THEN Undef ELSE Num(1)] :
     n \in HistoryLengths, p \in PriceScenarios,
     rv \in {Undef, Num(0), Frac(5, 2), Num(5), Num(10)},
     rs \in {<<"nocolumn", Undef>>, <<"nospy", Num(1)>>, <<"spy", Num(1)>>,
              <<"spy", Frac(21, 20)>>, <<"spy", Frac(6, 5)>>}}

InitScore ==
  /\ podHasBudget = TRUE
  /\ podAllowed = MaxBudget
  /\ rest_calls_this_minute = 0
  /\ shape = "multi"
  /\ now = 0
  /\ reqTimes = <<>>
  /\ cycle = 1
  /\ pc = "ScoreCall"
  /\ symbols = <<>>
  /\ batch_size = 0 /\ i = 0 /\ all_data = <<>> /\ issued = <<>>
  /\ day_data = <<>> /\ ranked = <<>> /\ top_symbols = <<>> /\ min_data = <<>>
  /\ minuteReqs = <<>>
  /\ ret = NoReturn
  /\ raised = "none"
  /\ call \in ScoreRows
  /\ result = NoResult

\* calculate_scores returns the composite of the row.
ScoreCall ==
  /\ pc = "ScoreCall"
  /\ result' = [done |-> TRUE, score |-> calculate_scores(call)]
  /\ pc' = "ScoreReturned"
  /\ UNCHANGED <<podVars, rest_calls_this_minute, now, reqTimes, cycle, symbols,
                 fetchVars, day_data, tailVars, ret, raised, call>>

NextScore == ScoreCall

SpecScore == InitScore /\ [][NextScore]_vars

\* The five features of the row of the call.
Features ==
  [trend |-> trend_strength(call.close, call.ema200), engulf |-> engulf_score(call.engulf),
   rvol |-> rvol_score(call.rvol), gap |-> gap_of(call.open, call.prev_close),
   rs |-> rs_score(call.has_rs, call.rs_spy, call.rs_sma)]

\* C13: the composite of a row is the weighted sum of its five features with
\* each missing feature counted as 0, so a row with a feature missing for
\* lack of history keeps the contributions of the features it has.
C13_MissingFeatureCountsAsZero ==
  (pc = "ScoreReturned" /\ result.done) =>
    result.score = WeightedSumSkippingMissing(Features.trend, Features.engulf, Features.rvol,
                                              Features.gap, Features.rs)

\* C14: with the default weights a row with its five features at 1 scores
\* exactly 1, a row with its five features at 0 scores exactly 0, and every
\* composite lies in [0, 1].
C14_ScoreBounds ==
  (pc = "ScoreReturned" /\ result.done) =>
    /\ IsDef(result.score)
    /\ ~RLess(result.score, Num(0)) /\ ~RLess(Num(1), result.score)
    /\ (\A f \in DOMAIN Features : Features[f] = Num(1)) => result.score = Num(1)
    /\ (\A f \in DOMAIN Features : Features[f] = Num(0)) => result.score = Num(0)

\* A row with all five features at their maximum was scored 1.
C14_Witness ==
  /\ pc = "ScoreReturned" /\ result.done
  /\ \A f \in DOMAIN Features : Features[f] = Num(1)
  /\ call.rvol = Num(10)
  /\ result.score = Num(1)

\* C17: on a panel without benchmark bars the relative-strength feature adds
\* 0 to every composite and leaves the other four contributions alone: the
\* composite is the one of the same row scored without an rs_spy column.
C17_MissingBenchmarkIsNeutral ==
  (pc = "ScoreReturned" /\ result.done /\ call.rs = "nospy") =>
    result.score = calculate_scores([call EXCEPT !.has_rs = FALSE])

\* ---------------------------------------------------------------------------
\* Scanner.rank_daily
\* ---------------------------------------------------------------------------

\* The days of the daily panel handed to rank_daily.
RankDays == {1, 2}

\* The rows of the panel: a 20th bar that rises, engulfs the bar before it
\* and stands 30% above its EMA, with each of the RVOL values (composites 0,
\* 0.40, 0.50, 0.60 and 0.60).
RankRows ==
  {c \in ScoreRows : c.n = RvolWindow /\ c.rs = "nocolumn" /\ c.close = Num(130)}

\* The bars of one symbol: one row on each day of a subset of RankDays, in
\* the order of the days.
RankPartitions(sym) ==
  UNION {{[k \in 1..m |-> [symbol |-> sym, t |-> ts[k], c |-> cs[k]]] :
            ts \in {t \in [1..m -> RankDays] : \A a \in 1..(m - 1) : t[a] < t[a + 1]},
            cs \in [1..m -> RankRows]} : m \in 0..Cardinality(RankDays)}

RECURSIVE RankPanels(_)
\* The sorted panels of the first n symbols of RankPool.
RankPanels(n) ==
  IF n = 0 THEN {<<>>}
  ELSE {p \o q : p \in RankPanels(n - 1), q \in RankPartitions(RankPool[n])}

\* df['score'] = self.calculate_scores(df)
Scored(panel) ==
  [k \in DOMAIN panel |->
     [symbol |-> panel[k].symbol, t |-> panel[k].t, score |-> calculate_scores(panel[k].c)]]

\* last_ts = df.index.get_level_values('timestamp').max()
LastTs(rows) == CHOOSE t \in {rows[k].t : k \in DOMAIN rows} : \A k \in DOMAIN rows : rows[k].t <= t

\* A selection that keeps the rows of every day.
TodayAnyDay(scored) ==
  LET Keep(r) == RLess(Frac(4, 10), r.score)
  IN SelectSeq(scored, Keep)

\* today = df[timestamp == last_ts]; today = today[today['score'] > 0.4]
Today(scored) ==
  LET Keep(r) == r.t = LastTs(scored) /\ RLess(Frac(4, 10), r.score)
  IN SelectSeq(scored, Keep)

\* A sort that leaves the rows in the order of the panel.
Unsorted(rows) == {rows}

\* today.sort_values('score', ascending=False): the orders of the rows with
\* no score below a later one; the order of rows with equal scores is the
\* choice of the sort.
SortedByScore(rows) ==
  LET n == Len(rows)
      perms == {p \in [1..n -> 1..n] : \A a, b \in 1..n : p[a] = p[b] => a = b}
  IN {[k \in 1..n |-> rows[p[k]]] :
        p \in {q \in perms : \A k \in 1..(n - 1) :
                 ~RLess(rows[q[k]].score, rows[q[k + 1]].score)}}

\* Scanner.rank_daily: the lists it can return for the panel.
rank_daily(panel) == SortedByScore(Today(Scored(panel)))

InitRank ==
  /\ podHasBudget = TRUE
  /\ podAllowed = MaxBudget
  /\ rest_calls_this_minute = 0
  /\ shape = "multi"
  /\ now = 0
  /\ reqTimes = <<>>
  /\ cycle = 1
  /\ pc = "RankCall"
  /\ symbols = <<>>
  /\ batch_size = 0 /\ i = 0 /\ all_data = <<>> /\ issued = <<>>
  /\ day_data = <<>> /\ ranked = <<>> /\ top_symbols = <<>> /\ min_data = <<>>
  /\ minuteReqs = <<>>
  /\ ret = NoReturn
  /\ raised = "none"
  /\ \E p \in RankPanels(MaxRankSymbols) :
       /\ p # <<>>
       /\ call = [fn |-> "rank_daily", rows |-> p]
  /\ result = NoResult

\* rank_daily returns the RankedList of the panel.
RankCall ==
  /\ pc = "RankCall"
  /\ \E r \in rank_daily(call.rows) : result' = [done |-> TRUE, rows |-> r]
  /\ pc' = "RankReturned"
  /\ UNCHANGED <<podVars, rest_calls_this_minute, now, reqTimes, cycle, symbols,
                 fetchVars, day_data, tailVars, ret, raised, call>>

NextRank == RankCall

SpecRank == InitRank /\ [][NextRank]_vars

\* The rows of the scored panel of the call that rank_daily is to return.
Qualifying ==
  {r \in {Scored(call.rows)[k] : k \in DOMAIN call.rows} :
     /\ \A k \in DOMAIN call.rows : call.rows[k].t <= r.t
     /\ RLess(Frac(4, 10), r.score)}

\* C15: the RankedList is exactly the rows of the scored panel at the panel's
\* latest timestamp with a score above 0.4: no earlier row, no row scoring
\* 0.4 or less, no qualifying row left out, none twice.
C15_RankedListIsTodaysQualifiers ==
  (pc = "RankReturned" /\ result.done) =>
    /\ {result.rows[k] : k \in DOMAIN result.rows} = Qualifying
    /\ Len(result.rows) = Cardinality(Qualifying)

\* A panel with a qualifying score on the earlier day and a score of exactly
\* 0.4 on the latest day was ranked, and one row came back.
C15_Witness ==
  /\ pc = "RankReturned" /\ result.done
  /\ Len(result.rows) = 1
  /\ \E k \in DOMAIN call.rows :
       /\ call.rows[k].t < LastTs(call.rows)
       /\ RLess(Frac(4, 10), Scored(call.rows)[k].score)
  /\ \E k \in DOMAIN call.rows :
       /\ call.rows[k].t = LastTs(call.rows)
       /\ Scored(call.rows)[k].score = Frac(4, 10)

\* C16 as stated: of every two consecutive entries of the RankedList the
\* earlier one has the strictly greater score.
C16_StrictlyDescending ==
  (pc = "RankReturned" /\ result.done) =>
    \A k \in 1..(Len(result.rows) - 1) :
      RLess(result.rows[k + 1].score, result.rows[k].score)

\* C16, amended: of every two consecutive entries of the RankedList the
\* earlier one has a score greater than or equal to the later one.
C16_Descending ==
  (pc = "RankReturned" /\ result.done) =>
    \A k \in 1..(Len(result.rows) - 1) :
      ~RLess(result.rows[k].score, result.rows[k + 1].score)

\* The sort moved a later row of the panel, with the greater score, to the
\* head of the RankedList.
C16_Witness ==
  /\ pc = "RankReturned" /\ result.done
  /\ Len(result.rows) >= 2
  /\ result.rows[1].symbol = "B" /\ result.rows[2].symbol = "A"
  /\ RLess(result.rows[2].score, result.rows[1].score)

\* ---------------------------------------------------------------------------
\* Scanner.intraday_filter
\* ---------------------------------------------------------------------------

\* The bars of the latest session: a bar that closes at its high on volume
\* 2, one that closes at its low, one that closes at its high on volume 1,
\* one without volume.
MinuteBars ==
  {[open |-> 1, high |-> 3, low |-> 1, close |-> 3, volume |-> 2],
   [open |-> 3, high |-> 3, low |-> 1, close |-> 1, volume |-> 2],
   [open |-> 1, high |-> 3, low |-> 1, close |-> 3, volume |-> 1],
   [open |-> 2, high |-> 2, low |-> 2, close |-> 2, volume |-> 0]}

\* The minutes of a session.
SessionMinutes == {1, 2}

\* The earlier sessions of a symbol: h days with a flat bar of volume v at
\* each minute of the session.
History(sym, h, v) ==
  [j \in 1..(2 * h) |->
     [symbol |-> sym, day |-> (j + 1) \div 2, minute |-> IF j % 2 = 1 THEN 1 ELSE 2,
      open |-> 2, high |-> 2, low |-> 2, close |-> 2, volume |-> v]]

\* The bars of a symbol on the latest day, at increasing minutes.
LastSession(sym) ==
  UNION {{[k \in 1..m |->
             [symbol |-> sym, day |-> LookbackDays + 1, minute |-> ts[k],
              open |-> bs[k].open, high |-> bs[k].high, low |-> bs[k].low,
              close |-> bs[k].close, volume |-> bs[k].volume]] :
            ts \in {t \in [1..m -> SessionMinutes] : \A a \in 1..(m - 1) : t[a] < t[a + 1]},
            bs \in [1..m -> MinuteBars]} : m \in 0..Cardinality(SessionMinutes)}

\* The minute bars of one symbol: no earlier session, one too few for the
\* lookback, or as many as the lookback (with or without volume), then the
\* latest session.
MinutePartitions(sym) ==
  {History(sym, hv[1], hv[2]) \o last :
     hv \in {<<0, 0>>, <<LookbackDays - 1, 1>>, <<LookbackDays, 0>>, <<LookbackDays, 1>>},
     last \in LastSession(sym)}

RECURSIVE MinutePanels(_, _)
\* The sorted minute panels with bars of the first n symbols of syms.
MinutePanels(syms, n) ==
  IF n = 0 THEN {<<>>}
  ELSE {p \o q : p \in MinutePanels(syms, n - 1), q \in MinutePartitions(syms[n])}

\* index.get_level_values('timestamp') == last_ts
AtLatest(rows, k) ==
  \A j \in DOMAIN rows :
    \/ rows[j].day < rows[k].day
    \/ rows[j].day = rows[k].day /\ rows[j].minute <= rows[k].minute

\* A filter on the last bar of each symbol.
intraday_filter_last_of_symbol(rows) ==
  LET idx == SelectSeq([j \in DOMAIN rows |-> j],
               LAMBDA k : /\ \A j \in DOMAIN rows : rows[j].symbol = rows[k].symbol => j <= k
                          /\ RLess(vwap(rows, k), Num(rows[k].close))
                          /\ RLess(Frac(3, 2), intraday_rvol(rows, k, LookbackDays)))
  IN  [m \in DOMAIN idx |->
         [symbol |-> rows[idx[m]].symbol, day |-> rows[idx[m]].day,
          minute |-> rows[idx[m]].minute, close |-> rows[idx[m]].close,
          vwap |-> vwap(rows, idx[m]),
          intraday_rvol |-> intraday_rvol(rows, idx[m], LookbackDays)]]

\* Scanner.intraday_filter: the rows at the latest timestamp of the panel
\* with close > vwap and intraday_rvol > 1.5, with the two added columns.
intraday_filter(rows) ==
  LET idx == SelectSeq([j \in DOMAIN rows |-> j],
               LAMBDA k : /\ AtLatest(rows, k)
                          /\ RLess(vwap(rows, k), Num(rows[k].close))
                          /\ RLess(Frac(3, 2), intraday_rvol(rows, k, LookbackDays)))
  IN  [m \in DOMAIN idx |->
         [symbol |-> rows[idx[m]].symbol, day |-> rows[idx[m]].day,
          minute |-> rows[idx[m]].minute, close |-> rows[idx[m]].close,
          vwap |-> vwap(rows, idx[m]),
          intraday_rvol |-> intraday_rvol(rows, idx[m], LookbackDays)]]

InitFilter ==
  /\ podHasBudget = TRUE
  /\ podAllowed = MaxBudget
  /\ rest_calls_this_minute = 0
  /\ shape = "multi"
  /\ now = 0
  /\ reqTimes = <<>>
  /\ cycle = 1
  /\ pc = "FilterCall"
  /\ symbols = <<>>
  /\ batch_size = 0 /\ i = 0 /\ all_data = <<>> /\ issued = <<>>
  /\ day_data = <<>> /\ ranked = <<>> /\ min_data = <<>>
  /\ minuteReqs = <<>>
  /\ ret = NoReturn
  /\ raised = "none"
  /\ \E n \in 1..2 :
       /\ top_symbols = SubSeq(RankPool, 1, n)
       /\ \E p \in MinutePanels(top_symbols, n) :
            /\ p # <<>>
            /\ call = [fn |-> "intraday_filter", rows |-> p]
  /\ result = NoResult

\* intraday_filter returns the confirmed rows of the minute panel.
FilterCall ==
  /\ pc = "FilterCall"
  /\ result' = [done |-> TRUE, rows |-> intraday_filter(call.rows)]
  /\ pc' = "FilterReturned"
  /\ UNCHANGED <<podVars, rest_calls_this_minute, now, reqTimes, cycle, symbols,
                 fetchVars, day_data, tailVars, ret, raised, call>>

NextFilter == FilterCall

SpecFilter == InitFilter /\ [][NextFilter]_vars

\* The symbols of the rows intraday_filter returned.
ConfirmedSymbols == {result.rows[m].symbol : m \in DOMAIN result.rows}

\* The volume of the symbol s on the latest day of the panel of the call, up
\* to the latest timestamp.
VolumeToday(s) ==
  LET last == CHOOSE k \in DOMAIN call.rows : AtLatest(call.rows, k)
      today == SelectSeq(call.rows, LAMBDA r : r.symbol = s /\ r.day = call.rows[last].day)
  IN  SumFn([m \in DOMAIN today |-> today[m].volume], DOMAIN today)

\* The number of earlier sessions of the symbol s with a bar at the minute of
\* the latest timestamp of the panel of the call.
SessionsBefore(s) ==
  LET last == CHOOSE k \in DOMAIN call.rows : AtLatest(call.rows, k)
  IN  Len(SelectSeq(call.rows, LAMBDA r : /\ r.symbol = s
                                          /\ r.minute = call.rows[last].minute
                                          /\ r.day < call.rows[last].day))

\* C18: intraday_filter returns exactly the symbols with a bar at the latest
\* timestamp of the whole minute panel on which close > vwap and
\* intraday_rvol > 1.5; a symbol without a bar at that timestamp, without
\* volume in the session (vwap undefined) or with fewer sessions before than
\* the lookback (intraday_rvol undefined) is not confirmed; every confirmed
\* symbol is one that was requested.
C18_ConfirmedAreLatestBarsPassing ==
  (pc = "FilterReturned" /\ result.done) =>
    /\ ConfirmedSymbols =
         {call.rows[k].symbol : k \in
            {j \in DOMAIN call.rows :
               /\ AtLatest(call.rows, j)
               /\ RLess(vwap(call.rows, j), Num(call.rows[j].close))
               /\ RLess(Frac(3, 2), intraday_rvol(call.rows, j, LookbackDays))}}
    /\ \A m \in DOMAIN result.rows :
         /\ IsDef(result.rows[m].vwap) /\ IsDef(result.rows[m].intraday_rvol)
         /\ \E k \in DOMAIN call.rows :
              /\ AtLatest(call.rows, k)
              /\ call.rows[k].symbol = result.rows[m].symbol
    /\ \A s \in ConfirmedSymbols : VolumeToday(s) > 0 /\ SessionsBefore(s) >= LookbackDays
    /\ ConfirmedSymbols \subseteq Range(top_symbols)

\* Of two requested symbols with a bar at the latest timestamp that closes
\* above its vwap on twice the usual volume, the one with a session too few
\* for the lookback was not confirmed and the other was.
C18_Witness ==
  /\ pc = "FilterReturned" /\ result.done
  /\ ConfirmedSymbols = {"A"}
  /\ \E k \in DOMAIN call.rows :
       /\ AtLatest(call.rows, k)
       /\ call.rows[k].symbol = "B"
       /\ RLess(vwap(call.rows, k), Num(call.rows[k].close))
       /\ call.rows[k].volume = 2
       /\ SessionsBefore("B") = LookbackDays - 1

\* ---------------------------------------------------------------------------
\* fetch_daily_data and the budget of the pod
\* ---------------------------------------------------------------------------

\* C21: fetch_daily_data returns a panel for every budget >= 0 and every
\* symbol list: the read of the budget from the pod and the loop over the
\* batches never end it by an exception, also for a budget of 0 or 1.
C21_FetchDailyAlwaysReturns ==
  ~(pc = "Raised" /\ raised \in {"AttributeError", "ValueError"})

\* ---------------------------------------------------------------------------
\* intraday_filter on the minute panel run_scanner requests
\* ---------------------------------------------------------------------------

\* The minute bars of one symbol in the window run_scanner requests
\* (start = now - 15 days): no earlier session, one fewer than the window
\* holds or as many as it holds (with or without volume), then the session
\* of today.
WindowPartitions(sym) ==
  {History(sym, hv[1], hv[2]) \o [k \in DOMAIN last |-> [last[k] EXCEPT !.day = WindowDays + 1]] :
     hv \in {<<0, 0>>, <<WindowDays - 1, 1>>, <<WindowDays, 0>>, <<WindowDays, 1>>},
     last \in LastSession(sym)}

RECURSIVE WindowPanels(_, _)
\* The sorted minute panels of the window with bars of the first n symbols
\* of syms.
WindowPanels(syms, n) ==
  IF n = 0 THEN {<<>>}
  ELSE {p \o q : p \in WindowPanels(syms, n - 1), q \in WindowPartitions(syms[n])}

InitWindow ==
  /\ podHasBudget = TRUE
  /\ podAllowed = MaxBudget
  /\ rest_calls_this_minute = 0
  /\ shape = "multi"
  /\ now = 0
  /\ reqTimes = <<>>
  /\ cycle = 1
  /\ pc = "FilterCall"
  /\ symbols = <<>>
  /\ batch_size = 0 /\ i = 0 /\ all_data = <<>> /\ issued = <<>>
  /\ day_data = <<>> /\ ranked = <<>> /\ min_data = <<>>
  /\ minuteReqs = <<>>
  /\ ret = NoReturn
  /\ raised = "none"
  /\ \E n \in 1..2 :
       /\ top_symbols = SubSeq(RankPool, 1, n)
       /\ \E p \in WindowPanels(top_symbols, n) :
            /\ p # <<>>
            /\ call = [fn |-> "intraday_filter", rows |-> p]
  /\ result = NoResult

SpecWindow == InitWindow /\ [][NextFilter]_vars

\* Row k of the panel of the call is the best a symbol can show in the
\* window: a bar at the latest timestamp that closes above its vwap, a bar
\* at the same minute in every earlier session the window holds, and a
\* cumulative volume above 1.5 times that of each of those sessions.
BestCase(k) ==
  /\ AtLatest(call.rows, k)
  /\ RLess(vwap(call.rows, k), Num(call.rows[k].close))
  /\ SessionsBefore(call.rows[k].symbol) = WindowDays
  /\ \A j \in 1..(k - 1) :
       (/\ call.rows[j].symbol = call.rows[k].symbol
        /\ call.rows[j].minute = call.rows[k].minute) =>
          /\ RLess(Num(0), CumVol(call.rows, j))
          /\ RLess(RMul(Frac(3, 2), CumVol(call.rows, j)), CumVol(call.rows, k))

\* On the panel of the window no symbol is confirmed.
NoneConfirmedInWindow ==
  (pc = "FilterReturned" /\ result.done) => result.rows = <<>>

\* C22: a ConfirmedSet that is not empty can be had from the 15-day minute
\* window with the default lookback of 20: a top symbol that closes above
\* its vwap at the latest minute on more than 1.5 times the cumulative
\* volume of every earlier session of the window is returned as confirmed.
C22_BestCaseIsConfirmed ==
  (pc = "FilterReturned" /\ result.done) =>
    \A k \in DOMAIN call.rows : BestCase(k) => call.rows[k].symbol \in ConfirmedSymbols

====
